---- MODULE Spec2Model ----
(***************************************************************************)
(* Sherwood Generator (src/app.py): one batch run of the script after the  *)
(* "Generate" button is pressed.  Drafters ("interns") are called one      *)
(* after the other, their results are recorded, and when more than one     *)
(* result passes the success filter the selected editors are called with   *)
(* a synthesis prompt built from them.                                     *)
(*                                                                         *)
(* Python strings whose prefix the code inspects (the draft text) are      *)
(* modelled as sequences of chunks, so that str.startswith is a prefix     *)
(* test on sequences; the other strings are atomic.                        *)
(***************************************************************************)
EXTENDS Integers, Sequences, FiniteSets, TLC

\* ---------------------------------------------------------------- bounds

\* Largest number of drafters selected in a modelled run (the widget allows 5).
MaxSelected == 2

\* ------------------------------------------------------- static catalog

\* Names bound at module level by the import statements.
GlobalNames ==
    {"st", "os", "time", "telebot", "json", "datetime", "pytz", "genai",
     "OpenAI", "Anthropic", "Tool", "GenerationConfig", "GoogleSearch",
     "GenerateContentConfig", "st_copy_to_clipboard"}

\* Whether evaluating the global name n succeeds (otherwise: NameError).
NameBound(n) == n \in GlobalNames

ClientNames == {"perplexity", "openai", "google", "anthropic"}

GenerationOrder == <<"Sonar", "Deepseek", "Gemini", "Optima", "Claude">>

GENERATION_MODELS_OPTIONS ==
    [n \in {"Sonar", "Deepseek", "Gemini", "Optima", "Claude"} |->
        CASE n = "Sonar"    -> [client |-> "perplexity", type |-> "perplexity"]
          [] n = "Deepseek" -> [client |-> "perplexity", type |-> "perplexity"]
          [] n = "Gemini"   -> [client |-> "google", type |-> "google_client_grounding"]
          [] n = "Optima"   -> [client |-> "openai", type |-> "openai_responses_websearch"]
          [] n = "Claude"   -> [client |-> "anthropic", type |-> "anthropic_websearch"]]

EditorOrder == <<"Graham", "Oscar">>

EDITOR_MODELS_OPTIONS ==
    [n \in {"Graham", "Oscar"} |->
        CASE n = "Graham" -> [client |-> "google", type |-> "google_client"]
          [] n = "Oscar"  -> [client |-> "openai", type |-> "openai_chat"]]

Range(s) == {s[k] : k \in 1..Len(s)}

\* The catalog names whose client handle is configured, in catalog order.
available_generation_models(cl) ==
    SelectSeq(GenerationOrder, LAMBDA n : GENERATION_MODELS_OPTIONS[n].client \in cl)

available_editor_models(cl) ==
    SelectSeq(EditorOrder, LAMBDA n : EDITOR_MODELS_OPTIONS[n].client \in cl)

\* What st.multiselect can return: the chosen options, each once, in the
\* order they were chosen.
InjectiveSeqs(S, lo, hi) ==
    {s \in UNION {[1..k -> S] : k \in lo..hi} :
        \A a, b \in 1..Len(s) : a # b => s[a] # s[b]}

\* ------------------------------------------------------------- strings

startswith(text, prefix) ==
    /\ Len(text) >= Len(prefix)
    /\ SubSeq(text, 1, Len(prefix)) = prefix

ErrorPrefix == <<"Error", ":">>

\* f"Model {intern_name} did not return a text response."
DefaultOutputText(name) == <<"Model ", name, " did not return a text response.">>

DefaultSourcesText == "Sources: Not applicable or not provided by this model."

\* The object st.caption returns: not a str.
CaptionObject == "<DeltaGenerator>"

isinstance_str(x) == x # CaptionObject

\* ------------------------------------------- what a provider call yields

\* Text a model can return: nothing, a CV, or a text that itself begins
\* with the characters "Error:".
ContentTexts == {<<>>, <<"CV body">>, <<"Error", ":", " no reliable data found">>}

\* The responses drawn for a provider call.  content is the returned text
\* (all text blocks joined), cites the shape of the citation container
\* (absent, present without a usable entry, present with entries), tool
\* whether the response reports a tool call (a web_search_call output
\* item, or stop_reason 'tool_use').
Responses(type) ==
    {[content |-> <<"CV body">>, cites |-> "some", tool |-> FALSE],
     [content |-> <<"CV body">>, cites |-> "absent", tool |-> FALSE],
     [content |-> <<"Error", ":", " no reliable data found">>, cites |-> "unusable",
      tool |-> FALSE],
     [content |-> <<>>, cites |-> "absent",
      tool |-> type \in {"openai_responses_websearch", "anthropic_websearch"}]}

ResponsesMissingMsg == "'OpenAI' object has no attribute 'responses'"

\* Exceptions a provider call (or the parsing of its response) can raise.
Exceptions(type) ==
    {[class |-> "APIStatusError", msg |-> "401 unauthorized"],
     [class |-> "AttributeError", msg |-> "'NoneType' object has no attribute 'content'"],
     [class |-> "Exception", msg |-> "connection reset"]}
    \cup (IF type = "openai_responses_websearch"
          THEN {[class |-> "AttributeError", msg |-> ResponsesMissingMsg]}
          ELSE {})

NoException == [class |-> "none", msg |-> ""]

NoResponse == [content |-> <<>>, cites |-> "absent", tool |-> FALSE]

\* ------------------------------------------- response normalisation

\* Each adapter branch of the drafter try block: the (output_text,
\* sources_text) pair left in the local variables when the branch ends.
\* output_text starts as the default placeholder, sources_text as the
\* default sources line.
NormalisePerplexity(name, r) ==
    [text    |-> IF r.content # <<>> THEN r.content ELSE DefaultOutputText(name),
     sources |-> CASE r.cites = "some"     -> "Sources (Note: ...):\n- [url](url)"
                   [] r.cites = "unusable" -> DefaultSourcesText
                   [] OTHER                -> CaptionObject]

NormaliseGoogle(name, r) ==
    [text    |-> IF r.content # <<>> THEN r.content ELSE DefaultOutputText(name),
     sources |-> CASE r.cites = "some"     -> "Grounding Sources:\n- [title](uri)"
                   [] r.cites = "unusable" -> DefaultSourcesText
                   [] OTHER                -> CaptionObject]

NormaliseOpenAI(name, r) ==
    [text    |-> IF r.content # <<>> THEN r.content ELSE DefaultOutputText(name),
     sources |-> CASE r.cites = "some" -> "Sources (OpenAI Optima):\n- [title](url)"
                   [] r.tool           -> "Sources (OpenAI Optima): Web search tool was utilized. No specific citable annotations found in the response. *Debug*"
                   [] OTHER            -> "<DeltaGenerator> *Debug*"]

ToolUseSentinel ==
    <<"Model used web search, but did not provide a direct text response in the first part. This might indicate a multi-step process is expected.">>

NormaliseAnthropic(name, r) ==
    LET parsed_output_text == r.content
        output_text1 == IF parsed_output_text # <<>> THEN parsed_output_text
                        ELSE DefaultOutputText(name)
        output_text2 == IF output_text1 = <<>> /\ r.tool /\ parsed_output_text = <<>>
                        THEN ToolUseSentinel ELSE output_text1
    IN  [text    |-> output_text2,
         sources |-> IF r.cites = "some" THEN "Cited Sources:\n- [title](url)"
                     ELSE CaptionObject]

Normalise(name, type, r) ==
    CASE type = "perplexity"                 -> NormalisePerplexity(name, r)
      [] type = "google_client_grounding"    -> NormaliseGoogle(name, r)
      [] type = "openai_responses_websearch" -> NormaliseOpenAI(name, r)
      [] type = "anthropic_websearch"        -> NormaliseAnthropic(name, r)

\* sources_text if isinstance(sources_text, str) else 'No sources provided.'
RecordedSources(sources_text) ==
    IF isinstance_str(sources_text) THEN sources_text ELSE "No sources provided."

\* ---------------------------------------------------- export blocks

\* f"<answer_{n}>\n(CV from **{n}**)\n\n{text}\n\n{sources}\n</answer_{n}>\n\n"
SuccessBlock(name, text, sources) ==
    [tag |-> name, header |-> "(CV from **name**)", body |-> text, sources |-> sources]

\* f"<answer_{n}>\n(CV from **{n}** - Fallback)\n\n{text}\n\n{sources}\n</answer_{n}>\n\n"
FallbackBlock(name, text, sources) ==
    [tag |-> name, header |-> "(CV from **name** - Fallback)", body |-> text,
     sources |-> sources]

\* f"<answer_{n}>\n\nError generating CV with {n}: {e}\n\n</answer_{n}>\n\n"
ErrorBlock(name, msg) ==
    [tag |-> name, header |-> "", body |-> <<"Error generating CV with ", name, ": ", msg>>,
     sources |-> ""]

\* f"<answer_{n}>\n\nError generating CV with {n} (fallback failed): {e}\n\n</answer_{n}>\n\n"
FallbackFailedBlock(name, msg) ==
    [tag |-> name, header |-> "",
     body |-> <<"Error generating CV with ", name, " (fallback failed)", ": ", msg>>,
     sources |-> ""]

\* {'text': f"Error: {e}", 'sources': "N/A due to error."}
ErrorEntry(msg) == [text |-> <<"Error", ":", " ", msg>>, sources |-> "N/A due to error."]

\* {'text': f"Error (fallback failed): {fallback_e}", 'sources': "N/A due to error."}
FallbackFailedEntry(msg) ==
    [text |-> <<"Error", " (fallback failed)", ":", " ", msg>>, sources |-> "N/A due to error."]

\* A dict that puts a new key first instead of last.
DictSetFront(d, key, value) ==
    <<[name |-> key, text |-> value.text, sources |-> value.sources]>>
    \o SelectSeq(d, LAMBDA e : e.name # key)

\* generated_cv_data[key] = value on an insertion-ordered dict, kept as a
\* sequence of [name, text, sources] records.
DictSet(d, key, value) ==
    LET entry == [name |-> key, text |-> value.text, sources |-> value.sources]
    IN  IF \E k \in 1..Len(d) : d[k].name = key
        THEN [k \in 1..Len(d) |-> IF d[k].name = key THEN entry ELSE d[k]]
        ELSE Append(d, entry)

DictKeys(d) == [k \in 1..Len(d) |-> d[k].name]

\* ------------------------------------------------------------- state

VARIABLES
    clients,                      \* the client handles that are not None
    bot,                          \* whether the Telegram bot is configured
    Intern_Select,                \* drafters chosen, in the order chosen
    Editor_Select,                \* editors chosen (<<>> stands for None or [])
    pc,                           \* position of the script
    i,                            \* index of the next drafter of the loop
    j,                            \* index of the next editor of the loop
    total_steps,
    current_step,
    combined_output_for_copying,  \* sequence of export blocks
    generated_cv_data,            \* insertion-ordered dict of recorded drafts
    successfully_generated_cvs,   \* the filtered dict, set after the drafter loop
    current_sg_date_str_for_editor,
    status,                       \* the post-batch message shown, if any
    calls,                        \* log of provider invocations
    outcomes,                     \* log: how each drafter iteration ended
    notifications,                \* log of bot.send_message calls
    editor_runs                   \* log: each editor invocation with its prompt

vars ==
    <<clients, bot, Intern_Select, Editor_Select, pc, i, j, total_steps,
      current_step, combined_output_for_copying, generated_cv_data,
      successfully_generated_cvs, current_sg_date_str_for_editor, status,
      calls, outcomes, notifications, editor_runs>>

\* Dates get_current_sg_date_str() can return during a run.
Dates == {"November 03, 2026", "November 04, 2026"}

\* st.progress(0) is created when total_steps > 0.
progress_bar == total_steps > 0

\* A step estimate that counts the drafters only.
TotalStepsDraftersOnly(interns, editors) == Len(interns)

\* total_steps = len(Intern_Select) + (len(Editor_Select)
\*                 if len(Intern_Select) > 1 and Editor_Select else 0)
TotalSteps(interns, editors) ==
    Len(interns) + (IF Len(interns) > 1 /\ editors # <<>> THEN Len(editors) ELSE 0)

\* The editor widget: shown only when more than one drafter is selected and
\* an editor is available; the button is disabled while it is shown empty.
EditorSelections(cl, interns) ==
    IF Len(interns) > 1 /\ available_editor_models(cl) # <<>>
    THEN InjectiveSeqs(Range(available_editor_models(cl)), 1, 2)
    ELSE {<<>>}

Init ==
    /\ clients \in SUBSET ClientNames
    /\ bot \in BOOLEAN
    /\ Intern_Select \in
         InjectiveSeqs(Range(available_generation_models(clients)), 1, MaxSelected)
    /\ Editor_Select \in EditorSelections(clients, Intern_Select)
    /\ pc = "drafters"
    /\ i = 1
    /\ j = 1
    /\ total_steps = TotalSteps(Intern_Select, Editor_Select)
    /\ current_step = 0
    /\ combined_output_for_copying = <<>>
    /\ generated_cv_data = <<>>
    /\ successfully_generated_cvs = <<>>
    /\ current_sg_date_str_for_editor = ""
    /\ status = ""
    /\ calls = <<>>
    /\ outcomes = <<>>
    /\ notifications = <<>>
    /\ editor_runs = <<>>

\* ------------------------------------------------ the drafter iteration

\* str(ae).lower() on the messages of Exceptions.
Lower(msg) ==
    CASE msg = ResponsesMissingMsg -> "'openai' object has no attribute 'responses'"
      [] msg = "'NoneType' object has no attribute 'content'"
                                   -> "'nonetype' object has no attribute 'content'"
      [] OTHER                     -> msg

\* "object has no attribute 'responses'" in s
ContainsResponsesNeedle(s) == s = "'openai' object has no attribute 'responses'"

\* Which except clause of the drafter try statement takes an exception.
\* The clauses are tried in order and the first one names
\* openai.APIStatusError: evaluating that expression needs the global name
\* openai, and when it is unbound the evaluation itself raises NameError,
\* which leaves the try statement with no later clause tried.
DrafterExceptClause(type, exc) ==
    IF ~NameBound("openai") THEN "NameError"
    ELSE CASE exc.class = "APIStatusError" -> "api_status"
           [] exc.class = "AttributeError" ->
                IF ContainsResponsesNeedle(Lower(exc.msg))
                   /\ type = "openai_responses_websearch"
                THEN "fallback" ELSE "attribute_error"
           [] OTHER -> "general"

\* Outcomes of one provider call: a response, or an exception.
Outcomes(type) ==
    {[exc |-> NoException, r |-> r] : r \in Responses(type)}
    \cup {[exc |-> e, r |-> NoResponse] : e \in Exceptions(type)}

\* What the plain chat completion endpoint answers to the fallback request
\* of a client without '.responses' (drawn whether or not the request is
\* made).
FallbackOutcomes ==
    {[exc |-> NoException, content |-> c] : c \in ContentTexts}
    \cup {[exc |-> [class |-> "Exception", msg |-> "fallback refused"], content |-> <<>>]}

NoFallback == [exc |-> NoException, content |-> <<>>]

FallbackSourcesText ==
    "Sources: (Fallback to standard chat) Information likely integrated from training data."

\* A notification whose failure is not caught where it is sent.
NotifyUncaught(has_bot, who, send_ok) ==
    [notes   |-> IF has_bot THEN <<[about |-> who, delivered |-> send_ok]>> ELSE <<>>,
     escapes |-> has_bot /\ ~send_ok]

\* A notification step that sends nothing.
NotifySilent(has_bot, who, send_ok) == [notes |-> <<>>, escapes |-> FALSE]

\* "if bot: try: bot.send_message(...) except Exception as bot_e:
\* st.warning(...)": the send_message calls made, and whether an exception
\* leaves the inner try statement (a failed send is caught there).
Notify(has_bot, who, send_ok) ==
    [notes   |-> IF has_bot THEN <<[about |-> who, delivered |-> send_ok]>> ELSE <<>>,
     escapes |-> FALSE]

\* The exception a failed send_message raises.
SendFailure == [class |-> "Exception", msg |-> "telegram unreachable"]

\* One pass of the body of "for intern_name in Intern_Select" for a drafter
\* whose client is configured: what it appends to the export, what it
\* stores in generated_cv_data, the calls and notifications it makes, and
\* whether an exception leaves the loop.
DrafterIteration(name, type, o, fb, has_bot, send_ok) ==
    LET primary == [who |-> name, api |-> type]
        clause  == DrafterExceptClause(type, o.exc)
        none    == [ended |-> "", abort |-> FALSE, blocks |-> <<>>, entries |-> <<>>,
                    calls |-> <<primary>>, notes |-> <<>>]
    IN  IF o.exc = NoException
        THEN LET n    == Normalise(name, type, o.r)
                 src  == RecordedSources(n.sources)
                 sent == Notify(has_bot, name, send_ok)
                 done == [none EXCEPT
                            !.ended   = "success",
                            !.blocks  = <<SuccessBlock(name, n.text, src)>>,
                            !.entries = <<[text |-> n.text, sources |-> src]>>,
                            !.notes   = sent.notes]
                 late == DrafterExceptClause(type, SendFailure)
             IN  IF ~sent.escapes THEN done
                 ELSE IF late = "NameError"
                      THEN [done EXCEPT !.ended = "NameError", !.abort = TRUE]
                      ELSE [done EXCEPT
                              !.ended   = late,
                              !.blocks  = done.blocks \o <<ErrorBlock(name, SendFailure.msg)>>,
                              !.entries = done.entries \o <<ErrorEntry(SendFailure.msg)>>]
        ELSE CASE clause = "NameError" ->
                    [none EXCEPT !.ended = "NameError", !.abort = TRUE]
               [] clause = "fallback" ->
                    IF fb.exc = NoException
                    THEN [none EXCEPT
                            !.ended   = "fallback_success",
                            !.calls   = <<primary, [who |-> name, api |-> "chat_fallback"]>>,
                            !.blocks  = <<FallbackBlock(name, fb.content, FallbackSourcesText)>>,
                            !.entries = <<[text |-> fb.content,
                                           sources |-> FallbackSourcesText]>>]
                    ELSE [none EXCEPT
                            !.ended   = "fallback_failed",
                            !.calls   = <<primary, [who |-> name, api |-> "chat_fallback"]>>,
                            !.blocks  = <<FallbackFailedBlock(name, fb.exc.msg)>>,
                            !.entries = <<FallbackFailedEntry(fb.exc.msg)>>]
               [] OTHER ->
                    [none EXCEPT
                       !.ended   = clause,
                       !.blocks  = <<ErrorBlock(name, o.exc.msg)>>,
                       !.entries = <<ErrorEntry(o.exc.msg)>>]

\* An increment that counts a step twice.
AdvanceTwice(step) == IF progress_bar THEN step + 2 ELSE step

\* current_step after "if progress_bar: current_step += 1".
Advance(step) == IF progress_bar THEN step + 1 ELSE step

\* An iteration that appends its export block but stores no entry.
StoreNothing(d, name, entries) == d

\* generated_cv_data after the entries of one iteration are stored.
Store(d, name, entries) ==
    CASE Len(entries) = 0 -> d
      [] Len(entries) = 1 -> DictSet(d, name, entries[1])
      [] OTHER            -> DictSet(DictSet(d, name, entries[1]), name, entries[2])

DrafterStep ==
    /\ pc = "drafters"
    /\ i <= Len(Intern_Select)
    /\ LET intern_name   == Intern_Select[i]
           model_details == GENERATION_MODELS_OPTIONS[intern_name]
       IN  IF model_details.client \notin clients
           THEN /\ current_step' = Advance(current_step)
                /\ outcomes' = Append(outcomes, [name |-> intern_name, ended |-> "skipped",
                                                  raised |-> NoException,
                                                  response |-> NoResponse,
                                                  chat_fails |-> FALSE])
                /\ i' = i + 1
                /\ UNCHANGED <<pc, combined_output_for_copying, generated_cv_data,
                               calls, notifications>>
           ELSE \E o \in Outcomes(model_details.type) :
                \E fb \in (IF o.exc.msg = ResponsesMissingMsg
                           THEN FallbackOutcomes ELSE {NoFallback}) :
                \E send_ok \in (IF o.exc = NoException /\ bot THEN BOOLEAN ELSE {TRUE}) :
                  LET it == DrafterIteration(intern_name, model_details.type,
                                             o, fb, bot, send_ok)
                  IN  /\ calls' = calls \o it.calls
                      /\ notifications' = notifications \o it.notes
                      /\ combined_output_for_copying' =
                            combined_output_for_copying \o it.blocks
                      /\ generated_cv_data' =
                            Store(generated_cv_data, intern_name, it.entries)
                      /\ outcomes' =
                            Append(outcomes, [name |-> intern_name, ended |-> it.ended,
                                              raised |-> o.exc, response |-> o.r,
                                              chat_fails |-> fb.exc # NoException])
                      /\ pc' = IF it.abort THEN "aborted" ELSE pc
                      /\ i' = IF it.abort THEN i ELSE i + 1
                      /\ current_step' =
                            IF it.abort THEN current_step ELSE Advance(current_step)
    /\ UNCHANGED <<clients, bot, Intern_Select, Editor_Select, j, total_steps,
                   successfully_generated_cvs, current_sg_date_str_for_editor,
                   status, editor_runs>>

\* ---------------------------------------------- gate, prompt and editors

\* {k: v for k, v in generated_cv_data.items()
\*        if not v['text'].startswith("Error:")}
SuccessFilter(d) == SelectSeq(d, LAMBDA e : ~startswith(e.text, ErrorPrefix))

\* The gate letting a single draft through.
SynthesisConditionOneDraft(succ, editors) == Len(succ) > 0 /\ editors # <<>>

\* len(successfully_generated_cvs) > 1 and Editor_Select
SynthesisCondition(succ, editors) == Len(succ) > 1 /\ editors # <<>>

\* The f-string block appended per entry of successfully_generated_cvs.
PromptBlock(e) == [tag |-> e.name, text |-> e.text, sources |-> e.sources]

\* A prompt whose provenance line and blocks follow the catalog order of
\* the models instead of the order of the dict.
prompt_in_catalog_order(date, succ) ==
    LET names == SelectSeq(GenerationOrder, LAMBDA n : \E k \in 1..Len(succ) : succ[k].name = n)
        entry(n) == CHOOSE e \in Range(succ) : e.name = n
    IN  [instructions |-> <<"You are an expert CV editor ...", "5.  **AGE**: ... based on ",
                            date, " and date of birth ...">>,
         provenance   |-> names,
         blocks       |-> [k \in 1..Len(names) |-> PromptBlock(entry(names[k]))]]

\* "".join(synthesis_prompt_parts): the fixed instruction block (whose only
\* varying parts are the subject and the date of its AGE line), the line
\* naming the models, and one tagged block per entry.
final_synthesis_prompt(date, succ) ==
    [instructions |-> <<"You are an expert CV editor ...", "5.  **AGE**: ... based on ",
                        date, " and date of birth ...">>,
     provenance   |-> DictKeys(succ),
     blocks       |-> [k \in 1..Len(succ) |-> PromptBlock(succ[k])]]

\* The statements between the two loops, and the branches that follow a
\* skipped synthesis.
SynthesisGate ==
    /\ pc = "drafters"
    /\ i > Len(Intern_Select)
    /\ LET succ == SuccessFilter(generated_cv_data)
       IN  /\ successfully_generated_cvs' = succ
           /\ IF SynthesisCondition(succ, Editor_Select)
              THEN /\ current_sg_date_str_for_editor' \in Dates
                   /\ status' = "Synthesized CV(s)"
                   /\ pc' = "editors"
              ELSE /\ UNCHANGED current_sg_date_str_for_editor
                   /\ status' =
                        IF Len(succ) <= 1 /\ combined_output_for_copying # <<>>
                        THEN "One or fewer CVs were successfully generated"
                        ELSE IF combined_output_for_copying = <<>>
                             THEN "No CVs were generated"
                             ELSE ""
                   /\ pc' = "summary"
    /\ UNCHANGED <<clients, bot, Intern_Select, Editor_Select, i, j, total_steps,
                   current_step, combined_output_for_copying, generated_cv_data,
                   calls, outcomes, notifications, editor_runs>>

\* Which except clause of the editor try statement takes an exception:
\* the first clause names openai.APIStatusError here too.
EditorExceptClause(exc) ==
    IF ~NameBound("openai") THEN "NameError"
    ELSE IF exc.class = "APIStatusError" THEN "api_status" ELSE "general"

EditorStep ==
    /\ pc = "editors"
    /\ j <= Len(Editor_Select)
    /\ LET editor_name_selected == Editor_Select[j]
           editor_details == EDITOR_MODELS_OPTIONS[editor_name_selected]
           prompt == final_synthesis_prompt(current_sg_date_str_for_editor,
                                            successfully_generated_cvs)
       IN  \E exc \in {NoException} \cup Exceptions(editor_details.type) :
           \E send_ok \in (IF exc = NoException /\ bot THEN BOOLEAN ELSE {TRUE}) :
             LET sent  == IF exc = NoException
                          THEN Notify(bot, editor_name_selected, send_ok)
                          ELSE [notes |-> <<>>, escapes |-> FALSE]
                 ended == IF exc # NoException THEN EditorExceptClause(exc)
                          ELSE IF sent.escapes THEN EditorExceptClause(SendFailure)
                          ELSE "success"
                 abort == ended = "NameError"
             IN  /\ calls' = Append(calls, [who |-> editor_name_selected,
                                            api |-> editor_details.type])
                 /\ editor_runs' = Append(editor_runs,
                        [editor |-> editor_name_selected, prompt |-> prompt,
                         ended |-> ended])
                 /\ notifications' = notifications \o sent.notes
                 /\ current_step' = IF abort THEN current_step ELSE Advance(current_step)
                 /\ j' = IF abort THEN j ELSE j + 1
                 /\ pc' = IF abort THEN "aborted"
                          ELSE IF j = Len(Editor_Select) THEN "summary" ELSE pc
    /\ UNCHANGED <<clients, bot, Intern_Select, Editor_Select, i, total_steps,
                   combined_output_for_copying, generated_cv_data,
                   successfully_generated_cvs, current_sg_date_str_for_editor,
                   status, outcomes>>

\* The end of the script: the overall timer is stopped and the final
\* summary is shown.
FinalSummary ==
    /\ pc = "summary"
    /\ pc' = "done"
    /\ UNCHANGED <<clients, bot, Intern_Select, Editor_Select, i, j, total_steps,
                   current_step, combined_output_for_copying, generated_cv_data,
                   successfully_generated_cvs, current_sg_date_str_for_editor,
                   status, calls, outcomes, notifications, editor_runs>>

Next == DrafterStep \/ SynthesisGate \/ EditorStep \/ FinalSummary

Spec == Init /\ [][Next]_vars

\* ------------------------------------------------------ claim helpers

\* The script has stopped: it showed its final summary, or an exception
\* left it.
Stopped == pc \in {"done", "aborted"}

DrafterTypes ==
    {"perplexity", "google_client_grounding", "openai_responses_websearch",
     "anthropic_websearch"}

\* The provider invocations made for drafter name (the fallback excluded).
PrimaryCalls(name) ==
    {c \in 1..Len(calls) : calls[c].who = name /\ calls[c].api \in DrafterTypes}

FallbackCalls(name) ==
    {c \in 1..Len(calls) : calls[c].who = name /\ calls[c].api = "chat_fallback"}

\* Position of x in the sequence s (0 when absent).
PositionIn(s, x) ==
    IF \E k \in 1..Len(s) : s[k] = x THEN CHOOSE k \in 1..Len(s) : s[k] = x ELSE 0

EntriesOf(name) == {k \in 1..Len(generated_cv_data) : generated_cv_data[k].name = name}

BlocksOf(name) ==
    {k \in 1..Len(combined_output_for_copying) : combined_output_for_copying[k].tag = name}

\* Drafter iterations whose provider call (or fallback call) completed.
CompletedDrafts ==
    {k \in 1..Len(outcomes) : outcomes[k].ended \in {"success", "fallback_success"}}

\* Recorded drafts the code counts as successful.
FilteredDrafts ==
    {k \in 1..Len(generated_cv_data) :
        ~startswith(generated_cv_data[k].text, ErrorPrefix)}

\* The drafter loop has been left and no editor has run yet.
DrafterBatchOver ==
    /\ editor_runs = <<>>
    /\ \/ pc \in {"aborted", "summary", "done"}
       \/ pc = "editors" /\ j = 1

\* ---------------------------------------------------------------- C1
\* C1: when the provider invocation of the drafter at position k raises,
\* every configured drafter at the positions after k is still invoked: once
\* the script has stopped, each selected drafter with a configured client
\* has been invoked.
C1_FailureNeverAbortsBatch ==
    Stopped =>
        \A k \in 1..Len(Intern_Select) :
            GENERATION_MODELS_OPTIONS[Intern_Select[k]].client \in clients
                => PrimaryCalls(Intern_Select[k]) # {}

\* ---------------------------------------------------------------- C2
\* C2: for every adapter kind, a provider call that raises does not
\* propagate out of the drafter iteration; exactly one DraftResult is
\* recorded for that provider, with an "Error: ..." text and the sources
\* "N/A due to error.".
C2_RaiseRecordsOneErrorResult ==
    \A k \in 1..Len(outcomes) :
        outcomes[k].raised # NoException =>
            /\ outcomes[k].ended # "NameError"
            /\ pc # "aborted"
            /\ Cardinality(EntriesOf(outcomes[k].name)) = 1
            /\ \A e \in EntriesOf(outcomes[k].name) :
                  /\ startswith(generated_cv_data[e].text, ErrorPrefix)
                  /\ generated_cv_data[e].sources = "N/A due to error."

\* ---------------------------------------------------------------- C3
\* C3: a started batch run takes at most len(Intern_Select) drafter steps
\* and len(Editor_Select) editor steps and, when it stops, has reached the
\* final status summary, whatever the providers did.
C3_RunReachesFinalSummary ==
    /\ Len(outcomes) <= Len(Intern_Select)
    /\ Len(editor_runs) <= Len(Editor_Select)
    /\ pc # "aborted"

\* ---------------------------------------------------------------- C4
\* C4: with K selected providers of which J have no configured client,
\* the drafter batch makes exactly K-J provider invocations and increments
\* the progress counter exactly K times; a skipped provider records
\* nothing.
C4_InvocationsAndProgress ==
    LET K == Len(Intern_Select)
        J == Cardinality({k \in 1..Len(Intern_Select) :
                 GENERATION_MODELS_OPTIONS[Intern_Select[k]].client \notin clients})
    IN  DrafterBatchOver =>
            /\ Cardinality(UNION {PrimaryCalls(Intern_Select[k]) : k \in 1..K}) = K - J
            /\ current_step = K
            /\ \A k \in 1..Len(outcomes) :
                  outcomes[k].ended = "skipped" =>
                      EntriesOf(outcomes[k].name) = {} /\ BlocksOf(outcomes[k].name) = {}

\* ---------------------------------------------------------------- C5
\* C5: no editor is invoked in a batch in which at most one DraftResult is
\* a Success, whether Success is read as "the provider call completed" or
\* as "the recorded draft passes the success filter".
C5_NoEditorBelowTwoSuccesses ==
    (Cardinality(CompletedDrafts) <= 1 \/ Cardinality(FilteredDrafts) <= 1)
        => /\ editor_runs = <<>>
           /\ \A c \in 1..Len(calls) : calls[c].api \in DrafterTypes \cup {"chat_fallback"}

\* A finished run with editors selected and two drafts recorded of which
\* one only passes the filter: the gate was reached and no editor ran.
C5_Witness ==
    /\ pc = "done"
    /\ Editor_Select # <<>>
    /\ Len(generated_cv_data) = 2
    /\ Cardinality(FilteredDrafts) = 1
    /\ editor_runs = <<>>

\* ---------------------------------------------------------------- C6
\* C6: a recorded DraftResult is excluded from the success set exactly
\* when an error path produced it (its text is an error description and
\* its sources are marked not applicable); the success set holds only
\* results of completed provider calls.
C6_ErrorIffErrorPath ==
    \A k \in 1..Len(generated_cv_data) :
        LET e == generated_cv_data[k]
            o == outcomes[PositionIn(DictKeys(outcomes), e.name)]
            error_path == o.ended \notin {"success", "fallback_success"}
        IN  /\ startswith(e.text, ErrorPrefix) <=> error_path
            /\ error_path <=> e.sources = "N/A due to error."

\* ---------------------------------------------------------------- C7
\* s lists distinct elements of t in the order they have in t.
InOrderOf(s, t) ==
    /\ \A a \in 1..Len(s) : PositionIn(t, s[a]) > 0
    /\ \A a, b \in 1..Len(s) : a < b => PositionIn(t, s[a]) < PositionIn(t, s[b])

\* C7: the entries of generated_cv_data and the blocks of the combined
\* export appear in the order in which the drafters were selected, one
\* block per entry, and the editors are invoked in the order in which they
\* were selected.
C7_ResultsInSelectionOrder ==
    /\ InOrderOf(DictKeys(generated_cv_data), Intern_Select)
    /\ [k \in 1..Len(combined_output_for_copying) |-> combined_output_for_copying[k].tag]
          = DictKeys(generated_cv_data)
    /\ [k \in 1..Len(editor_runs) |-> editor_runs[k].editor]
          = SubSeq(Editor_Select, 1, Len(editor_runs))

\* Two drafts recorded and two editors invoked, both selected against the
\* catalog order.
C7_Witness ==
    /\ Intern_Select = <<"Claude", "Sonar">>
    /\ Editor_Select = <<"Oscar", "Graham">>
    /\ Len(generated_cv_data) = 2
    /\ Len(editor_runs) = 2

\* ---------------------------------------------------------------- C8
\* The selected drafters with a recorded draft that passes the success
\* filter, in selection order.
SuccessfulInSelectionOrder ==
    SelectSeq(Intern_Select,
              LAMBDA n : \E k \in FilteredDrafts : generated_cv_data[k].name = n)

C9_PromptDeterminedByDrafts ==
    \A r \in 1..Len(editor_runs) :
        \A d \in Dates :
            editor_runs[r].prompt = final_synthesis_prompt(d, successfully_generated_cvs)

\* ---------------------------------------------------------------- C10
\* C10: a drafter of kind openai_responses_websearch whose client lacks
\* '.responses' makes exactly one fallback chat-completion call and, when
\* that call succeeds, records a draft whose export block and sources are
\* labelled as fallback; no fallback call is made for any other kind or
\* any other error.
C10_OneFallbackOnMissingResponses ==
    \A k \in 1..Len(outcomes) :
        LET o == outcomes[k]
            type == GENERATION_MODELS_OPTIONS[o.name].type
            missing == /\ type = "openai_responses_websearch"
                       /\ o.raised.class = "AttributeError"
                       /\ o.raised.msg = ResponsesMissingMsg
        IN  /\ Cardinality(FallbackCalls(o.name)) = (IF missing THEN 1 ELSE 0)
            /\ o.ended = "fallback_success" =>
                  /\ \A b \in BlocksOf(o.name) :
                        combined_output_for_copying[b].header = "(CV from **name** - Fallback)"
                  /\ \A e \in EntriesOf(o.name) :
                        generated_cv_data[e].sources = FallbackSourcesText

\* ---------------------------------------------------------------- C11
\* C11: when the client of an openai_responses_websearch drafter lacks
\* '.responses' and the fallback chat completion fails too, the drafter
\* ends as an ordinary provider error: one DraftResult is recorded, it is
\* not in the success set, and the batch goes on with the next drafter.
C11_FailedFallbackIsOrdinaryError ==
    \A k \in 1..Len(outcomes) :
        (outcomes[k].raised.msg = ResponsesMissingMsg /\ outcomes[k].chat_fails) =>
            /\ pc # "aborted"
            /\ Cardinality(FallbackCalls(outcomes[k].name)) = 1
            /\ Cardinality(EntriesOf(outcomes[k].name)) = 1
            /\ EntriesOf(outcomes[k].name) \cap FilteredDrafts = {}

\* ---------------------------------------------------------------- C12
\* Steps whose progress increment has run: the drafter iterations and the
\* editor iterations that were not left by an exception.
FinishedIterations ==
    Cardinality({k \in 1..Len(outcomes) : outcomes[k].ended # "NameError"})
    + Cardinality({k \in 1..Len(editor_runs) : editor_runs[k].ended # "NameError"})

\* C12: a failed notification send is swallowed.  The drafter or editor it
\* was sent for stays a success (the drafter's entry and block are the
\* ones recorded before the send, no error block is added), its progress
\* increment is made, and it does not end the run.
C12_NotificationFailureSwallowed ==
    /\ current_step = FinishedIterations
    /\ \A m \in 1..Len(notifications) :
          LET who == notifications[m].about
          IN  ~notifications[m].delivered =>
                IF who \in Range(Intern_Select)
                THEN /\ \E k \in 1..Len(outcomes) :
                           outcomes[k].name = who /\ outcomes[k].ended = "success"
                     /\ Cardinality(EntriesOf(who)) = 1
                     /\ Cardinality(BlocksOf(who)) = 1
                     /\ \A e \in EntriesOf(who) :
                           /\ generated_cv_data[e].sources # "N/A due to error."
                           /\ \A b \in BlocksOf(who) :
                                 /\ combined_output_for_copying[b].header = "(CV from **name**)"
                                 /\ combined_output_for_copying[b].body = generated_cv_data[e].text
                ELSE \E r \in 1..Len(editor_runs) :
                        editor_runs[r].editor = who /\ editor_runs[r].ended = "success"

\* A run that finished although the notification of its first drafter and
\* of its first editor failed, and in which a later drafter and a later
\* editor ran.
C12_Witness ==
    /\ pc = "done"
    /\ Len(outcomes) = 2
    /\ Len(editor_runs) = 2
    /\ \E m \in 1..Len(notifications) :
          notifications[m].about = Intern_Select[1] /\ ~notifications[m].delivered
    /\ \E m \in 1..Len(notifications) :
          notifications[m].about = Editor_Select[1] /\ ~notifications[m].delivered

\* ---------------------------------------------------------------- C13
NotificationsAbout(who) == {m \in 1..Len(notifications) : notifications[m].about = who}

EditorRunsOf(name) == {r \in 1..Len(editor_runs) : editor_runs[r].editor = name}

\* The editor loop was entered.
SynthesisStarted == status = "Synthesized CV(s)"

\* C14: in the editor loop each selected editor is invoked at most once, a
\* failing editor does not keep the editors after it from being invoked,
\* and the progress counter is incremented once per selected editor,
\* succeeded or failed: a stopped run that entered the loop has invoked
\* every editor once and counted every drafter and editor.
C14_EditorFailureContained ==
    /\ \A e \in Range(Editor_Select) : Cardinality(EditorRunsOf(e)) <= 1
    /\ (Stopped /\ SynthesisStarted) =>
          /\ \A e \in Range(Editor_Select) : Cardinality(EditorRunsOf(e)) = 1
          /\ current_step = Len(Intern_Select) + Len(Editor_Select)

\* ---------------------------------------------------------------- C15
\* C15: a batch that ends with no Success DraftResult reports "No CVs were
\* generated" and attempts no synthesis.
C15_NoSuccessReportsNoCVs ==
    (Stopped /\ (CompletedDrafts = {} \/ FilteredDrafts = {})) =>
        /\ status = "No CVs were generated"
        /\ editor_runs = <<>>

\* ---------------------------------------------------------------- C16
\* C16: a batch with at least two Success DraftResults and at least one
\* selected editor triggers synthesis: once the run has stopped, every
\* selected editor has been invoked exactly once, with the prompt built
\* from all Success drafts.
C16_SynthesisTriggered ==
    (Stopped /\ Cardinality(FilteredDrafts) >= 2 /\ Editor_Select # <<>>) =>
        \A e \in Range(Editor_Select) :
            /\ Cardinality(EditorRunsOf(e)) = 1
            /\ \A r \in EditorRunsOf(e) :
                  editor_runs[r].prompt.provenance = SuccessfulInSelectionOrder

\* ---------------------------------------------------------------- C17
\* C17: when the response of the anthropic_websearch adapter holds no text
\* block and its stop reason is 'tool_use', the recorded draft text is the
\* sentinel explanation, not a placeholder.
C17_ToolUseSentinelRecorded ==
    \A k \in 1..Len(outcomes) :
        LET o == outcomes[k]
        IN  (/\ GENERATION_MODELS_OPTIONS[o.name].type = "anthropic_websearch"
             /\ o.ended = "success"
             /\ o.response.content = <<>>
             /\ o.response.tool)
            => \A e \in EntriesOf(o.name) : generated_cv_data[e].text = ToolUseSentinel

\* ---------------------------------------------------------------- C18
\* Editor steps were counted in total_steps.
EditorsCounted == Len(Intern_Select) > 1 /\ Editor_Select # <<>>

\* C18: the progress counter stays within 0..total_steps, total_steps is
\* the number of drafters plus, when more than one drafter and an editor
\* are selected, the number of editors, and the editor loop runs only when
\* the editor steps were counted.
C18_ProgressWithinTotal ==
    /\ current_step >= 0
    /\ current_step <= total_steps
    /\ total_steps = Len(Intern_Select) + (IF EditorsCounted THEN Len(Editor_Select) ELSE 0)
    /\ (pc = "editors" \/ editor_runs # <<>>) => EditorsCounted

\* The counter reached total_steps after two drafters and two editors.
C18_Witness ==
    /\ Len(Intern_Select) = 2
    /\ Len(Editor_Select) = 2
    /\ Len(editor_runs) = 2
    /\ current_step = total_steps
    /\ current_step = 4

\* ---------------------------------------------------------------- C19
\* C19: at the final summary the counter equals total_steps exactly when
\* no editor steps were counted or synthesis ran; when editors were
\* counted and synthesis was skipped, it ends at len(Intern_Select), below
\* total_steps.
C19_FinalProgress ==
    pc = "done" =>
        /\ current_step = total_steps <=> (~EditorsCounted \/ SynthesisStarted)
        /\ (EditorsCounted /\ ~SynthesisStarted) =>
              /\ current_step = Len(Intern_Select)
              /\ current_step < total_steps

\* A finished run whose editors were counted and never ran.
C19_Witness ==
    /\ pc = "done"
    /\ EditorsCounted
    /\ ~SynthesisStarted
    /\ total_steps = 4
    /\ current_step = 2

\* ---------------------------------------------------------------- C20
\* Drafter iterations that ran to their end.
ProcessedDrafters ==
    {k \in 1..Len(outcomes) : outcomes[k].ended # "NameError"}

\* C20: the combined export and generated_cv_data agree.  A provider has
\* an <answer_...> block exactly when it has an entry, each processed
\* drafter that was not skipped has one of each, and there are never more
\* entries than drafters processed.
C20_ExportAgreesWithData ==
    /\ \A n \in Range(GenerationOrder) : (BlocksOf(n) # {}) <=> (EntriesOf(n) # {})
    /\ \A k \in ProcessedDrafters :
          outcomes[k].ended # "skipped" =>
              /\ Cardinality(BlocksOf(outcomes[k].name)) = 1
              /\ Cardinality(EntriesOf(outcomes[k].name)) = 1
    /\ Len(generated_cv_data) <= Cardinality(ProcessedDrafters)

\* Between the first and the second drafter iteration, one block and one
\* entry recorded.
C20_Witness ==
    /\ pc = "drafters"
    /\ Len(Intern_Select) = 2
    /\ i = 2
    /\ Len(generated_cv_data) = 1
    /\ Len(combined_output_for_copying) = 1

====
